---- MODULE Spec2Model ----
(***************************************************************************)
(* Model of the painting-assistant pipeline:                               *)
(*   src/src/critique.py       ImageCritic.critique_image (the evaluator)  *)
(*   src/src/pipeline.py       PaintingPipeline.generate_version and       *)
(*                             PaintingPipeline.run_full_pipeline          *)
(*   src/src/gemini_client.py  the shapes of the two port results          *)
(*   src/src/prompts.py        NUM_VERSIONS, get_prompt(_for_retry)        *)
(*                                                                         *)
(* Texts are sequences of one-character strings, so that the substring     *)
(* scans and the two regular expressions of the evaluator are computed     *)
(* character by character.  Positions are 1-based; 0 stands for Python's   *)
(* "not found" (-1).                                                       *)
(***************************************************************************)
EXTENDS Integers, Sequences, FiniteSets, TLC

\* Python's None, for dicts, paths, tokens and error texts
None == <<>>

\* Python's None where a text is expected (the empty text is <<>>)
NONE_TEXT == <<"None">>

----------------------------------------------------------------------------
\* Characters and str methods

LowerCase == <<"a","b","c","d","e","f","g","h","i","j","k","l","m",
               "n","o","p","q","r","s","t","u","v","w","x","y","z">>

UpperCase == <<"A","B","C","D","E","F","G","H","I","J","K","L","M",
               "N","O","P","Q","R","S","T","U","V","W","X","Y","Z">>

Digits == <<"0","1","2","3","4","5","6","7","8","9">>

\* the characters \s matches and str.strip() removes
Whitespace == {" ", "\n"}

\* the character class [-•*] of the issue pattern ("•" is written "U+2022")
BulletChars == {"-", "U+2022", "*"}

IsDigit(c) == \E d \in 1..10 : Digits[d] = c

DigitVal(c) == (CHOOSE d \in 1..10 : Digits[d] = c) - 1

upper_char(c) ==
    IF \E k \in 1..26 : LowerCase[k] = c
    THEN UpperCase[CHOOSE k \in 1..26 : LowerCase[k] = c]
    ELSE c

\* str.upper()
upper(s) == [k \in 1..Len(s) |-> upper_char(s[k])]

\* sub occurs in s at position i
MatchAt(s, sub, i) ==
    /\ i >= 1
    /\ i + Len(sub) - 1 <= Len(s)
    /\ \A k \in 1..Len(sub) : s[i + k - 1] = sub[k]

\* sub in s
Contains(s, sub) == \E i \in 1..Len(s) : MatchAt(s, sub, i)

\* s.find(sub, start): the least position >= start where sub occurs, 0 if none
find(s, sub, start) ==
    IF \E i \in start..Len(s) : MatchAt(s, sub, i)
    THEN CHOOSE i \in start..Len(s) :
            /\ MatchAt(s, sub, i)
            /\ \A j \in start..(i - 1) : ~MatchAt(s, sub, j)
    ELSE 0

\* s.split(sep)[0]: what precedes the first occurrence of sep, all of s if none
split_head(s, sep) ==
    IF find(s, sep, 1) = 0 THEN s ELSE SubSeq(s, 1, find(s, sep, 1) - 1)

\* s.strip()
strip(s) ==
    IF \A k \in 1..Len(s) : s[k] \in Whitespace
    THEN <<>>
    ELSE LET first == CHOOSE i \in 1..Len(s) :
                         /\ s[i] \notin Whitespace
                         /\ \A j \in 1..(i - 1) : s[j] \in Whitespace
             last  == CHOOSE i \in 1..Len(s) :
                         /\ s[i] \notin Whitespace
                         /\ \A j \in (i + 1)..Len(s) : s[j] \in Whitespace
         IN  SubSeq(s, first, last)

\* the first position >= i of s whose character is not in class (Len(s)+1 if none)
SkipClass(s, i, class) ==
    CHOOSE j \in i..(Len(s) + 1) :
        /\ \A k \in i..(j - 1) : s[k] \in class
        /\ (j <= Len(s) => s[j] \notin class)

\* int() of a run of digits
RECURSIVE int(_)
int(ds) ==
    IF ds = <<>> THEN 0
    ELSE 10 * int(SubSeq(ds, 1, Len(ds) - 1)) + DigitVal(ds[Len(ds)])

----------------------------------------------------------------------------
\* The words the evaluator scans for

PASS == <<"P","A","S","S">>
FAIL == <<"F","A","I","L">>
OVERALL == <<"O","V","E","R","A","L","L">>
SCORE == <<"S","C","O","R","E">>
OVERALL_SCORE == OVERALL \o <<" ">> \o SCORE
CRITICAL_ISSUES == <<"C","R","I","T","I","C","A","L"," ","I","S","S","U","E","S">>
VERDICT == <<"V","E","R","D","I","C","T">>

----------------------------------------------------------------------------
\* ImageCritic.critique_image: the parsing of the analysis text

\* variant: a "FAIL" anywhere in the text fails it
parse_passed_fail_anywhere(analysis) ==
    /\ Contains(upper(analysis), PASS)
    /\ ~Contains(upper(analysis), FAIL)

\* "PASS" in analysis.upper() and "FAIL" not in analysis.upper().split("PASS")[0]
parse_passed(analysis) ==
    /\ Contains(upper(analysis), PASS)
    /\ ~Contains(split_head(upper(analysis), PASS), FAIL)

\* re.IGNORECASE match of overall\s*score[:\s]*(\d+) starting at position i
ScoreMatchAt(analysis, i) ==
    LET j1 == SkipClass(analysis, i + Len(OVERALL), Whitespace)
        j3 == SkipClass(analysis, j1 + Len(SCORE), Whitespace \cup {":"})
    IN  /\ MatchAt(upper(analysis), OVERALL, i)
        /\ MatchAt(upper(analysis), SCORE, j1)
        /\ j3 <= Len(analysis)
        /\ IsDigit(analysis[j3])

\* group(1) of that match: the maximal run of digits
ScoreGroup(analysis, i) ==
    LET j1 == SkipClass(analysis, i + Len(OVERALL), Whitespace)
        j3 == SkipClass(analysis, j1 + Len(SCORE), Whitespace \cup {":"})
        j4 == SkipClass(analysis, j3, {Digits[d] : d \in 1..10})
    IN  SubSeq(analysis, j3, j4 - 1)

\* re.search: the leftmost position where the pattern matches, 0 if none
score_match(analysis) ==
    IF \E i \in 1..Len(analysis) : ScoreMatchAt(analysis, i)
    THEN CHOOSE i \in 1..Len(analysis) :
            /\ ScoreMatchAt(analysis, i)
            /\ \A j \in 1..(i - 1) : ~ScoreMatchAt(analysis, j)
    ELSE 0

DEFAULT_SCORE == 5

\* variant: the pattern is searched without the "OVERALL SCORE" test
parse_overall_score_unguarded(analysis) ==
    IF score_match(analysis) # 0
    THEN int(ScoreGroup(analysis, score_match(analysis)))
    ELSE DEFAULT_SCORE

\* variant: the integer is taken after the first "OVERALL SCORE" that has one
parse_overall_score_after_label(analysis) ==
    LET labelled == {i \in 1..Len(analysis) :
                        /\ MatchAt(upper(analysis), OVERALL_SCORE, i)
                        /\ ScoreMatchAt(analysis, i)}
    IN  IF labelled # {}
        THEN int(ScoreGroup(analysis,
                            CHOOSE i \in labelled : \A j \in labelled : i <= j))
        ELSE DEFAULT_SCORE

\* lines 57-65
parse_overall_score(analysis) ==
    IF Contains(upper(analysis), OVERALL_SCORE)
    THEN IF score_match(analysis) # 0
         THEN int(ScoreGroup(analysis, score_match(analysis)))
         ELSE DEFAULT_SCORE
    ELSE DEFAULT_SCORE

\* analysis[start:end], start at the "CRITICAL ISSUES" label, end at the next
\* "VERDICT" or at the end of the text
issues_text(analysis) ==
    LET start == find(upper(analysis), CRITICAL_ISSUES, 1)
        end   == find(upper(analysis), VERDICT, start)
    IN  IF end = 0
        THEN SubSeq(analysis, start, Len(analysis))
        ELSE SubSeq(analysis, start, end - 1)

\* the lookahead (?=[-•*]|\n\n|$) at position q of t
Lookahead(t, q) ==
    \/ q = Len(t) + 1
    \/ q = Len(t) /\ t[q] = "\n"
    \/ q <= Len(t) /\ t[q] \in BulletChars
    \/ q + 1 <= Len(t) /\ t[q] = "\n" /\ t[q + 1] = "\n"

\* where group(1) starts for a match whose bullet is at i < Len(t): after the
\* whitespace run, or on its last character when the run reaches the end of t
GroupStart(t, i) ==
    IF SkipClass(t, i + 1, Whitespace) <= Len(t)
    THEN SkipClass(t, i + 1, Whitespace)
    ELSE Len(t)

\* where the lazy (.+?) stops: the first position after at least one character
\* at which the lookahead succeeds
GroupEnd(t, g) ==
    CHOOSE q \in (g + 1)..(Len(t) + 1) :
        /\ Lookahead(t, q)
        /\ \A r \in (g + 1)..(q - 1) : ~Lookahead(t, r)

\* re.findall(r'[-•*]\s*(.+?)(?=[-•*]|\n\n|$)', t, re.DOTALL) from position p
RECURSIVE issue_items(_, _)
issue_items(t, p) ==
    IF \E i \in p..(Len(t) - 1) : t[i] \in BulletChars
    THEN LET i == CHOOSE i \in p..(Len(t) - 1) :
                     /\ t[i] \in BulletChars
                     /\ \A j \in p..(i - 1) : t[j] \notin BulletChars
             g == GroupStart(t, i)
             q == GroupEnd(t, g)
         IN  <<SubSeq(t, g, q - 1)>> \o issue_items(t, q)
    ELSE <<>>

\* [item.strip() for item in issue_items if item.strip()]
stripped_items(items) ==
    LET kept == SelectSeq(items, LAMBDA item : strip(item) # <<>>)
    IN  [k \in 1..Len(kept) |-> strip(kept[k])]

parse_issues(analysis) ==
    IF Contains(upper(analysis), CRITICAL_ISSUES)
    THEN stripped_items(issue_items(issues_text(analysis), 1))
    ELSE <<>>

FAILED_TO_ANALYZE == <<"Failed to analyze image">>

\* critique_image raises: analysis.upper() on a None text
critique_raises(result) == result.success /\ result.analysis = NONE_TEXT

\* the dict critique_image returns for the analysis port's result
critique_image(result) ==
    IF ~result.success
    THEN [success |-> FALSE, passed |-> FALSE, overall_score |-> 0,
          critique |-> NONE_TEXT, issues |-> <<FAILED_TO_ANALYZE>>,
          error |-> result.error]
    ELSE [success |-> TRUE, passed |-> parse_passed(result.analysis),
          overall_score |-> parse_overall_score(result.analysis),
          critique |-> result.analysis,
          issues |-> parse_issues(result.analysis),
          error |-> None]

----------------------------------------------------------------------------
\* Configuration

NUM_VERSIONS == 5

MAX_ITERATIONS_PER_VERSION == 3

MIN_SCORE_TO_PASS == 7

\* PROMPTS[version]["name"]
VersionName == <<"Block-in", "Form & Edges", "Development", "Atmosphere", "Final">>

\* how many port responses of one session may differ from the nominal one
\* (an image with a continuity token; an analysis that scores 8 and passes)
MaxDeviations == 3

----------------------------------------------------------------------------
\* What the two ports can answer

INPUT_IMAGE == <<"input">>

\* session_dir / f"v{version:02d}_attempt{iteration + 1}.png"
attempt_path(v, it) == <<"attempt", v, it + 1>>

\* session_dir / f"v{version:02d}_final.png"
final_path(v) == <<"final", v>>

RESULTS_JSON == <<"results.json">>

\* session_dir / f"00_original{suffix}"
INPUT_COPY == <<"00_original">>

\* the thoughtSignature of the response to the generation call (v, it)
signature_of(v, it) == <<"sig", v, it + 1>>

GENERATION_FAILED == <<"Generation failed">>

\* the error texts of generate_image's failure results
GenErrors == {<<"API error">>, <<"Request timed out">>, <<"No image in response">>}

\* the error texts of analyze_image's failure results
AnalysisErrors == {<<"API error">>, <<"Request timed out">>}

\* analysis texts in the layout the critique prompt asks for
ScoreLine(ds) == OVERALL_SCORE \o <<":", " ">> \o ds \o <<"\n">>

VerdictLine(word) == VERDICT \o <<":", " ">> \o word

IssuesSection ==
    CRITICAL_ISSUES \o <<":", "\n", "-", " ", "h", "a", "r", "d", " ",
                         "e", "d", "g", "e", "s", "\n">>

TextPass8 == ScoreLine(<<"8">>) \o VerdictLine(PASS)

TextPass7 == ScoreLine(<<"7">>) \o VerdictLine(PASS)

TextFail9 == ScoreLine(<<"9">>) \o IssuesSection \o VerdictLine(FAIL)

TextFail6 == ScoreLine(<<"6">>) \o IssuesSection \o VerdictLine(FAIL)

TextPassNoScore == VerdictLine(PASS)

TextPass12 == ScoreLine(<<"1", "2">>) \o VerdictLine(PASS)

NominalText == TextPass8

AnalysisTexts ==
    {TextPass8, TextPass7, TextFail9, TextFail6, TextPassNoScore, TextPass12}

\* generate_image's result dict
GenResults(v, it) ==
    {[success |-> FALSE, image_path |-> None, thought_signature |-> None,
      error |-> e] : e \in GenErrors}
    \cup
    {[success |-> TRUE, image_path |-> attempt_path(v, it),
      thought_signature |-> sig, error |-> None] :
        sig \in {signature_of(v, it), None}}

\* analyze_image's result dict
AnalysisResults ==
    {[success |-> FALSE, analysis |-> NONE_TEXT, error |-> e] :
        e \in AnalysisErrors}
    \cup
    {[success |-> TRUE, analysis |-> t, error |-> None] :
        t \in AnalysisTexts \cup {NONE_TEXT}}

\* critique_image on each analysis result that does not make it raise,
\* computed once
critique_table ==
    [ana \in {a \in AnalysisResults : ~critique_raises(a)} |-> critique_image(ana)]

GenDeviation(g) ==
    IF g.success /\ g.thought_signature # None THEN 0 ELSE 1

AnalysisDeviation(a) ==
    IF a.success /\ a.analysis = NominalText THEN 0 ELSE 1

----------------------------------------------------------------------------
\* State

VARIABLES
    pc,                   \* where run_full_pipeline / critique_image stands
    version,              \* loop variable of run_full_pipeline
    iteration,            \* loop variable of generate_version (0-based)
    attempts,             \* generate_version: the Attempt Records so far
    best_result,          \* generate_version: the running best record or None
    best_score,           \* generate_version: its score
    previous_image_path,  \* run_full_pipeline: image handed to the next version
    thought_signature,    \* run_full_pipeline: token handed to the next version
    results,              \* run_full_pipeline: the session result dict
    gen_request,          \* arguments of the last generate_image call
    gen_result,           \* its result
    analysis_result,      \* result of the last analyze_image call
    critique_result,      \* the dict critique_image made of it
    port_calls,           \* per version, the requests sent to each port
    files,                \* the files of the session directory
    deviations,           \* non-nominal port responses so far
    setup,                \* what run.py's main found: the credential, the input
    written_over          \* the files found in the session directory and replaced

vars == <<pc, version, iteration, attempts, best_result, best_score,
          previous_image_path, thought_signature, results, gen_request,
          gen_result, analysis_result, critique_result, port_calls, files,
          deviations, setup, written_over>>

NoCalls == [v \in 1..NUM_VERSIONS |-> 0]

Init ==
    /\ pc = "main"
    /\ setup = None
    /\ version = 0
    /\ iteration = 0
    /\ attempts = <<>>
    /\ best_result = None
    /\ best_score = 0
    /\ previous_image_path = None
    /\ thought_signature = None
    /\ results = None
    /\ gen_request = None
    /\ gen_result = None
    /\ analysis_result = None
    /\ critique_result = None
    /\ port_calls = [generate |-> NoCalls, analyze |-> NoCalls]
    /\ files = {}
    /\ deviations = 0
    /\ written_over = {}

----------------------------------------------------------------------------
\* prompts.py

get_prompt(v) == [version |-> v, retry |-> FALSE, issues |-> <<>>]

get_prompt_for_retry(v, issues) == [version |-> v, retry |-> TRUE, issues |-> issues]

----------------------------------------------------------------------------
\* PaintingPipeline.generate_version, piece by piece

\* variant: a retry is given the issues of the last attempt that recorded any
build_prompt_last_recorded_issues(v, it, atts) ==
    LET with_issues == {k \in 1..Len(atts) : atts[k].issues # <<>>}
    IN  IF it > 0 /\ with_issues # {}
        THEN get_prompt_for_retry(
                 v, atts[CHOOSE k \in with_issues :
                             \A j \in with_issues : j <= k].issues)
        ELSE get_prompt(v)

\* lines 68-74: the prompt of the attempt
build_prompt(v, it, atts) ==
    LET is_retry == it > 0
        previous_issues == IF is_retry /\ atts # <<>>
                           THEN atts[Len(atts)].issues
                           ELSE <<>>
    IN  IF is_retry /\ previous_issues # <<>>
        THEN get_prompt_for_retry(v, previous_issues)
        ELSE get_prompt(v)

\* variant: a retry is generated from the image of the attempt before it
reference_path_last_attempt(prev_image) ==
    IF attempts # <<>> /\ attempts[Len(attempts)].success
    THEN attempts[Len(attempts)].image_path
    ELSE IF prev_image # None THEN prev_image ELSE INPUT_IMAGE

\* line 81
reference_path(prev_image) ==
    IF prev_image # None THEN prev_image ELSE INPUT_IMAGE

\* variant: a retry passes the token its previous attempt returned
request_signature_from_last_attempt(signature, atts) ==
    IF atts # <<>> /\ atts[Len(atts)].success
    THEN atts[Len(atts)].thought_signature
    ELSE signature

\* line 89: every attempt passes the token generate_version was called with
request_signature(signature, atts) == signature

\* variant: a failed generation is scored with the evaluator's default
failed_attempt_default_score(it, gen) ==
    [iteration |-> it + 1, success |-> FALSE, error |-> gen.error,
     issues |-> <<GENERATION_FAILED>>, score |-> DEFAULT_SCORE]

\* lines 94-100
failed_attempt(it, gen) ==
    [iteration |-> it + 1, success |-> FALSE, error |-> gen.error,
     issues |-> <<GENERATION_FAILED>>, score |-> 0]

\* variant: the record's success flag is the Verdict's
attempt_record_success_of_verdict(it, gen, crit) ==
    [iteration |-> it + 1, success |-> crit.success,
     image_path |-> gen.image_path,
     score |-> crit.overall_score, passed |-> crit.passed,
     issues |-> crit.issues, critique |-> crit.critique,
     thought_signature |-> gen.thought_signature]

\* lines 113-127
attempt_record(it, gen, crit) ==
    [iteration |-> it + 1, success |-> TRUE, image_path |-> gen.image_path,
     score |-> crit.overall_score, passed |-> crit.passed,
     issues |-> crit.issues, critique |-> crit.critique,
     thought_signature |-> gen.thought_signature]

\* variant: the comparison inverted
replaces_best_inverted(score, best) == score < best

\* variant: the comparison made with >= (a tie replaces the running best)
replaces_best_or_equal(score, best) == score >= best

\* variant: every evaluated attempt becomes the best (the last one wins)
replaces_best_always(score, best) == TRUE

\* line 131
replaces_best(score, best) == score > best

\* variant: the threshold compared with > (a score of exactly 7 does not stop)
should_break_strict(passed, score) == passed /\ score > MIN_SCORE_TO_PASS

\* variant: the loop is left on any pass verdict, whatever the score
should_break_on_pass(passed, score) == passed

\* line 136
should_break(passed, score) == passed /\ score >= MIN_SCORE_TO_PASS

\* variant: the bound compared with <= (one iteration too many)
has_next_iteration_inclusive(it) == it + 1 <= MAX_ITERATIONS_PER_VERSION

\* line 64: the loop goes on to a further iteration after iteration it
has_next_iteration(it) == it + 1 < MAX_ITERATIONS_PER_VERSION

\* variant: attempts counts the attempts that produced an image
successful_version_result_counting_images(v, atts, best, score) ==
    [success |-> TRUE, image_path |-> final_path(v),
     thought_signature |-> best.thought_signature,
     attempts |-> Cardinality({k \in 1..Len(atts) : atts[k].success}),
     final_score |-> score, passed |-> best.passed]

\* lines 154-161
successful_version_result(v, atts, best, score) ==
    [success |-> TRUE, image_path |-> final_path(v),
     thought_signature |-> best.thought_signature,
     attempts |-> Len(atts), final_score |-> score, passed |-> best.passed]

\* variant: attempts counts the attempts that produced an image
failed_version_result_counting_images(atts) ==
    [success |-> FALSE, image_path |-> None, thought_signature |-> None,
     attempts |-> Cardinality({k \in 1..Len(atts) : atts[k].success}),
     final_score |-> 0, passed |-> FALSE]

\* lines 163-170
failed_version_result(atts) ==
    [success |-> FALSE, image_path |-> None, thought_signature |-> None,
     attempts |-> Len(atts), final_score |-> 0, passed |-> FALSE]

\* variant: the version succeeds as soon as an attempt produced an image
version_result_success_with_any_image(v, atts, best, score) ==
    IF best # None
    THEN successful_version_result(v, atts, best, score)
    ELSE IF \E k \in 1..Len(atts) : atts[k].success
         THEN [success |-> TRUE, image_path |-> final_path(v),
               thought_signature |-> None, attempts |-> Len(atts),
               final_score |-> 0, passed |-> FALSE]
         ELSE failed_version_result(atts)

\* lines 146-170
version_result(v, atts, best, score) ==
    IF best # None
    THEN successful_version_result(v, atts, best, score)
    ELSE failed_version_result(atts)

----------------------------------------------------------------------------
\* PaintingPipeline.run_full_pipeline, piece by piece

\* lines 224-228
version_entry(v, res) ==
    [version |-> v, name |-> VersionName[v], success |-> res.success,
     image_path |-> res.image_path, thought_signature |-> res.thought_signature,
     attempts |-> res.attempts, final_score |-> res.final_score,
     passed |-> res.passed]

\* variant: the image is taken from the result whether or not it succeeded
next_previous_image_unconditional(prev_image, res) == res.image_path

\* lines 230-231: the image handed to the next version
next_previous_image(prev_image, res) ==
    IF res.success THEN res.image_path ELSE prev_image

\* variant: the token is taken from the result whether or not it succeeded
next_thought_signature_unconditional(prev_signature, res) ==
    res.thought_signature

\* lines 230-232: the token handed to the next version
next_thought_signature(prev_signature, res) ==
    IF res.success THEN res.thought_signature ELSE prev_signature

RECURSIVE sum_final_score(_)
sum_final_score(vs) ==
    IF vs = <<>> THEN 0
    ELSE vs[Len(vs)].final_score + sum_final_score(SubSeq(vs, 1, Len(vs) - 1))

\* variant: the attempts of the failed versions are left out
RECURSIVE sum_attempts_successful(_)
sum_attempts_successful(vs) ==
    IF vs = <<>> THEN 0
    ELSE (IF vs[Len(vs)].success THEN vs[Len(vs)].attempts ELSE 0)
             + sum_attempts_successful(SubSeq(vs, 1, Len(vs) - 1))

\* line 244
RECURSIVE sum_attempts(_)
sum_attempts(vs) ==
    IF vs = <<>> THEN 0
    ELSE vs[Len(vs)].attempts + sum_attempts(SubSeq(vs, 1, Len(vs) - 1))

\* line 237
passed_count(vs) == Cardinality({k \in 1..Len(vs) : vs[k].passed})

\* round(total / n, 1), in tenths (80 is 8.0); ties go to the even tenth
round1(total, n) ==
    LET q == (10 * total) \div n
        r == (10 * total) % n
    IN  IF 2 * r < n THEN q
        ELSE IF 2 * r > n THEN q + 1
        ELSE IF q % 2 = 0 THEN q ELSE q + 1

\* variant: the average is taken over the successful versions only
avg_divisor_successful(vs) ==
    IF \E k \in 1..Len(vs) : vs[k].success
    THEN Cardinality({k \in 1..Len(vs) : vs[k].success})
    ELSE 1

\* line 238 and line 243: the divisor of the average
avg_divisor(vs) == NUM_VERSIONS

\* run.py main line 46: the exit status for the dict run_full_pipeline returned
exit_status(res) == IF res.success THEN 0 ELSE 1

\* lines 240-245; average_score is held in tenths
make_summary(vs) ==
    [versions_passed |-> passed_count(vs),
     versions_total |-> NUM_VERSIONS,
     average_score |-> round1(sum_final_score(vs), avg_divisor(vs)),
     total_attempts |-> sum_attempts(vs)]

----------------------------------------------------------------------------
\* Actions

\* variant: the pipeline is built without looking at the credential
setup_outcome_unchecked_key(api_key, input_exists) ==
    IF ~input_exists THEN "exit_1" ELSE "start"

\* run.py main lines 29-35: sys.exit(1) when the input file is missing, else
\* PaintingPipeline() whose GeminiImageClient raises ValueError without a key
setup_outcome(api_key, input_exists) ==
    IF ~input_exists THEN "exit_1"
    ELSE IF ~api_key THEN "value_error"
    ELSE "start"

\* run.py main lines 26-35, up to the call of run_full_pipeline
Main(api_key, input_exists) ==
    /\ pc = "main"
    /\ setup' = [api_key |-> api_key, input_exists |-> input_exists]
    /\ pc' = setup_outcome(api_key, input_exists)
    /\ UNCHANGED <<version, iteration, attempts, best_result, best_score,
                   previous_image_path, thought_signature, results,
                   gen_request, gen_result, analysis_result, critique_result,
                   port_calls, files, deviations, written_over>>

\* a write to path replaces the file that is there: shutil.copy, open(.., "wb"),
\* Path.rename and open(.., "w") all do
replaced(path, fs) == {path} \cap fs

\* run_full_pipeline, lines 187-212: the workspace, the copy of the input, the
\* empty result and the two pieces of state threaded through the versions
StartSession ==
    /\ pc = "start"
    /\ UNCHANGED setup
    /\ files' = files \cup {INPUT_COPY}
    /\ written_over' = written_over \cup replaced(INPUT_COPY, files)
    /\ results' = [success |-> TRUE, input_image |-> INPUT_COPY,
                   versions |-> <<>>, summary |-> None]
    /\ previous_image_path' = None
    /\ thought_signature' = None
    /\ version' = 1
    /\ pc' = "version"
    /\ UNCHANGED <<iteration, attempts, best_result, best_score, gen_request,
                   gen_result, analysis_result, critique_result, port_calls,
                   deviations>>

\* variant: the next version is started while the one at hand still has its
\* result to return
EnterVersion_before_result ==
    /\ pc \in {"version", "finalize"}
    /\ pc = "finalize" => version < NUM_VERSIONS
    /\ UNCHANGED <<setup, written_over>>
    /\ version' = IF pc = "finalize" THEN version + 1 ELSE version
    /\ attempts' = <<>>
    /\ best_result' = None
    /\ best_score' = 0
    /\ iteration' = 0
    /\ pc' = "attempt"
    /\ UNCHANGED <<previous_image_path, thought_signature, results,
                   gen_request, gen_result, analysis_result, critique_result,
                   port_calls, files, deviations>>

\* run_full_pipeline line 216 calls generate_version, lines 54-62
EnterVersion ==
    /\ pc = "version"
    /\ UNCHANGED <<setup, written_over>>
    /\ attempts' = <<>>
    /\ best_result' = None
    /\ best_score' = 0
    /\ iteration' = 0
    /\ pc' = "attempt"
    /\ UNCHANGED <<version, previous_image_path, thought_signature, results,
                   gen_request, gen_result, analysis_result, critique_result,
                   port_calls, files, deviations>>

\* the loop of generate_version moves past iteration `iteration`
NextIteration ==
    /\ iteration' = iteration + 1
    /\ pc' = IF has_next_iteration(iteration) THEN "attempt" ELSE "finalize"

\* variant: a request that failed is sent a second time by the client
requests_sent_with_resend(result) == IF result.success THEN 1 ELSE 2

\* generate_image and analyze_image: the one requests.post of a call, whatever
\* its result
requests_sent(result) == 1

\* generate_version lines 65-101: the prompt, the reference, the call of the
\* generation port, and the failed Attempt Record when it fails
GenerateImage(gen) ==
    /\ pc = "attempt"
    /\ UNCHANGED setup
    /\ deviations + GenDeviation(gen) <= MaxDeviations
    /\ deviations' = deviations + GenDeviation(gen)
    /\ gen_request' = [prompt |-> build_prompt(version, iteration, attempts),
                       reference_image_path |-> reference_path(previous_image_path),
                       output_path |-> attempt_path(version, iteration),
                       previous_thought_signature |->
                           request_signature(thought_signature, attempts)]
    /\ gen_result' = gen
    /\ port_calls' = [port_calls EXCEPT
                        !.generate[version] = @ + requests_sent(gen)]
    /\ IF gen.success
       THEN /\ files' = files \cup {gen.image_path}
            /\ written_over' = written_over \cup replaced(gen.image_path, files)
            /\ pc' = "critique"
            /\ UNCHANGED <<attempts, iteration>>
       ELSE /\ attempts' = Append(attempts, failed_attempt(iteration, gen))
            /\ NextIteration
            /\ UNCHANGED <<files, written_over>>
    /\ UNCHANGED <<version, best_result, best_score, previous_image_path,
                   thought_signature, results, analysis_result,
                   critique_result>>

\* generate_version lines 105-143: critique_image (which calls the analysis
\* port), the Attempt Record, the running best and the early exit
CritiqueImage(ana) ==
    /\ pc = "critique"
    /\ UNCHANGED <<setup, written_over>>
    /\ deviations + AnalysisDeviation(ana) <= MaxDeviations
    /\ deviations' = deviations + AnalysisDeviation(ana)
    /\ analysis_result' = ana
    /\ port_calls' = [port_calls EXCEPT
                        !.analyze[version] = @ + requests_sent(ana)]
    /\ IF critique_raises(ana)
       THEN /\ pc' = "raised"
            /\ UNCHANGED <<critique_result, attempts, best_result, best_score,
                           iteration>>
       ELSE LET crit == critique_table[ana]
                rec  == attempt_record(iteration, gen_result, crit)
            IN  /\ critique_result' = crit
                /\ attempts' = Append(attempts, rec)
                /\ IF replaces_best(crit.overall_score, best_score)
                   THEN best_score' = crit.overall_score /\ best_result' = rec
                   ELSE UNCHANGED <<best_score, best_result>>
                /\ IF should_break(crit.passed, crit.overall_score)
                   THEN pc' = "finalize" /\ UNCHANGED iteration
                   ELSE NextIteration
    /\ UNCHANGED <<version, previous_image_path, thought_signature, results,
                   gen_request, gen_result, files>>

\* generate_version lines 145-170 returns the Version Result; run_full_pipeline
\* lines 224-234 appends it and updates the threaded state
FinalizeVersion ==
    /\ pc = "finalize"
    /\ UNCHANGED setup
    /\ LET res == version_result(version, attempts, best_result, best_score)
       IN  /\ files' = IF best_result # None
                       THEN (files \ {best_result.image_path})
                                \cup {final_path(version)}
                       ELSE files
           /\ written_over' = IF best_result # None
                              THEN written_over
                                       \cup replaced(final_path(version), files)
                              ELSE written_over
           /\ results' = [results EXCEPT
                            !.versions = Append(@, version_entry(version, res))]
           /\ previous_image_path' = next_previous_image(previous_image_path, res)
           /\ thought_signature' = next_thought_signature(thought_signature, res)
    /\ version' = version + 1
    /\ pc' = IF version < NUM_VERSIONS THEN "version" ELSE "summary"
    /\ UNCHANGED <<iteration, attempts, best_result, best_score, gen_request,
                   gen_result, analysis_result, critique_result, port_calls,
                   deviations>>

\* run_full_pipeline lines 236-259: the summary, results.json, the return
Summarize ==
    /\ pc = "summary"
    /\ UNCHANGED setup
    /\ results' = [results EXCEPT !.summary = make_summary(results.versions)]
    /\ files' = files \cup {RESULTS_JSON}
    /\ written_over' = written_over \cup replaced(RESULTS_JSON, files)
    /\ pc' = "done"
    /\ UNCHANGED <<version, iteration, attempts, best_result, best_score,
                   previous_image_path, thought_signature, gen_request,
                   gen_result, analysis_result, critique_result, port_calls,
                   deviations>>

Next ==
    \/ \E api_key, input_exists \in BOOLEAN : Main(api_key, input_exists)
    \/ StartSession
    \/ EnterVersion
    \/ \E gen \in GenResults(version, iteration) : GenerateImage(gen)
    \/ \E ana \in AnalysisResults : CritiqueImage(ana)
    \/ FinalizeVersion
    \/ Summarize

Spec == Init /\ [][Next]_vars

----------------------------------------------------------------------------
\* A session whose directory exists already: run_full_pipeline names the
\* directory after the session name and the second it starts in, and makes it
\* with mkdir(parents=True, exist_ok=True)

\* the files a completed session of the same name and second left there
EarlierSession ==
    {INPUT_COPY, RESULTS_JSON, attempt_path(1, 0)}
        \cup {final_path(v) : v \in 1..NUM_VERSIONS}

InitCollision ==
    /\ pc = "main"
    /\ setup = None
    /\ version = 0
    /\ iteration = 0
    /\ attempts = <<>>
    /\ best_result = None
    /\ best_score = 0
    /\ previous_image_path = None
    /\ thought_signature = None
    /\ results = None
    /\ gen_request = None
    /\ gen_result = None
    /\ analysis_result = None
    /\ critique_result = None
    /\ port_calls = [generate |-> NoCalls, analyze |-> NoCalls]
    /\ files = EarlierSession
    /\ deviations = 0
    /\ written_over = {}

SpecCollision == InitCollision /\ [][Next]_vars

----------------------------------------------------------------------------
\* The evaluator on its own: critique_image applied to one analysis result

MaxTokens == 3

MaxItems == 3

\* fragments of analysis texts
EvalTokens ==
    {PASS, <<"p", "a", "s", "s">>, FAIL, <<"F", "a", "i", "l">>,
     <<" ">>, <<"x">>, <<":", " ">>, <<"7">>, <<"1", "0">>,
     OVERALL_SCORE,
     <<"o", "v", "e", "r", "a", "l", "l", " ", " ", "s", "c", "o", "r", "e">>}

\* the texts made of at most n fragments
RECURSIVE TokenTexts(_)
TokenTexts(n) ==
    IF n = 0 THEN {<<>>}
    ELSE TokenTexts(n - 1)
         \cup {t \o w : t \in TokenTexts(n - 1), w \in EvalTokens}

IssueHeaders ==
    {CRITICAL_ISSUES \o <<":", "\n">>,
     <<"*", "*", "C", "r", "i", "t", "i", "c", "a", "l", " ",
       "I", "s", "s", "u", "e", "s", "*", "*", "\n">>}

IssueLines ==
    {<<b, " ">> \o c \o <<"\n">> :
        b \in BulletChars,
        c \in {<<"a">>, <<"a", "-", "b">>, <<" ", "c", " ">>}}

\* the sequences of at most n bulleted lines, concatenated
RECURSIVE IssueBlocks(_)
IssueBlocks(n) ==
    IF n = 0 THEN {<<>>}
    ELSE IssueBlocks(n - 1)
         \cup {t \o l : t \in IssueBlocks(n - 1), l \in IssueLines}

IssueEndings == {VerdictLine(FAIL), <<"\n">> \o VerdictLine(PASS)}

\* a "CRITICAL ISSUES" header, bulleted lines, a "VERDICT" header
IssueTexts ==
    {h \o b \o e : h \in IssueHeaders, b \in IssueBlocks(MaxItems),
                   e \in IssueEndings}

EvalTexts == TokenTexts(MaxTokens) \cup IssueTexts

EvalResults ==
    {[success |-> FALSE, analysis |-> NONE_TEXT, error |-> e] :
        e \in AnalysisErrors}
    \cup
    {[success |-> TRUE, analysis |-> t, error |-> None] :
        t \in EvalTexts \cup {NONE_TEXT}}

InitEval ==
    /\ pc = "eval"
    /\ setup = [api_key |-> TRUE, input_exists |-> TRUE]
    /\ analysis_result \in EvalResults
    /\ critique_result = None
    /\ version = 1
    /\ iteration = 0
    /\ attempts = <<>>
    /\ best_result = None
    /\ best_score = 0
    /\ previous_image_path = None
    /\ thought_signature = None
    /\ results = None
    /\ gen_request = None
    /\ gen_result = None
    /\ port_calls = [generate |-> NoCalls, analyze |-> NoCalls]
    /\ files = {}
    /\ deviations = 0
    /\ written_over = {}

\* critique_image lines 37-90 on the analysis result at hand
Critique ==
    /\ pc = "eval"
    /\ UNCHANGED <<setup, written_over>>
    /\ IF critique_raises(analysis_result)
       THEN pc' = "raised" /\ UNCHANGED critique_result
       ELSE /\ critique_result' = critique_image(analysis_result)
            /\ pc' = "evaluated"
    /\ UNCHANGED <<version, iteration, attempts, best_result, best_score,
                   previous_image_path, thought_signature, results,
                   gen_request, gen_result, analysis_result, port_calls,
                   files, deviations>>

NextEval == Critique

SpecEval == InitEval /\ [][NextEval]_vars

----------------------------------------------------------------------------
\* Properties of the session (specification Spec)

InVersion == pc \in {"attempt", "critique", "finalize"}

Versions == IF results = None THEN <<>> ELSE results.versions

\* the attempt was generated and evaluated pass with a score of at least 7
Accepted(rec) == rec.success /\ rec.passed /\ rec.score >= 7

\* C1: when run_full_pipeline has ended, by returning or by raising, the
\* session's list holds exactly NUM_VERSIONS Version Results, the k-th one for
\* ordinal k.
C1_ExactlyNResultsInOrder ==
    pc \in {"done", "raised"} =>
        /\ Len(Versions) = NUM_VERSIONS
        /\ \A k \in 1..Len(Versions) : Versions[k].version = k

\* C2: no version has more than MAX_ITERATIONS_PER_VERSION (3) attempts: the
\* attempt list, the loop counter and the number of generation calls of every
\* version stay within 3, and an attempt is only ever pending below 3.
C2_AttemptsBounded ==
    /\ Len(attempts) <= 3
    /\ iteration <= 3
    /\ pc \in {"attempt", "critique"} => iteration < 3
    /\ \A v \in 1..NUM_VERSIONS : port_calls.generate[v] <= 3

C2_Witness ==
    /\ pc = "finalize"
    /\ Len(attempts) = 3
    /\ port_calls.generate[version] = 3
    /\ ~Accepted(attempts[3])

\* C3: once an attempt of the version is evaluated pass=true with score >= 7,
\* it is the last Attempt Record of the version and no further generation or
\* analysis call is made for the version.
C3_NoCallAfterAccepted ==
    [][(InVersion /\ \E k \in 1..Len(attempts) : Accepted(attempts[k])) =>
          /\ Accepted(attempts[Len(attempts)])
          /\ \A k \in 1..(Len(attempts) - 1) : ~Accepted(attempts[k])
          /\ pc = "finalize"
          /\ port_calls'.generate[version] = port_calls.generate[version]
          /\ port_calls'.analyze[version] = port_calls.analyze[version]
          /\ attempts' = attempts]_vars

C3_Witness ==
    /\ pc = "finalize"
    /\ Len(attempts) = 2
    /\ Accepted(attempts[2])
    /\ attempts[1].success

\* C4: when every attempt of a version failed at generation, the Version
\* Result appended for it has success=false, image_path=null,
\* thought_signature=null, final_score=0, passed=false and attempts=3, and no
\* analysis call was made for the version.
C4_AllGenerationsFail ==
    [][(pc = "finalize" /\ \A k \in 1..Len(attempts) : ~attempts[k].success) =>
          /\ Len(results'.versions) = Len(results.versions) + 1
          /\ LET r == results'.versions[Len(results'.versions)]
             IN  /\ r.version = version
                 /\ r.success = FALSE
                 /\ r.image_path = None
                 /\ r.thought_signature = None
                 /\ r.final_score = 0
                 /\ r.passed = FALSE
                 /\ r.attempts = 3
          /\ port_calls'.analyze[version] = 0]_vars

C4_Witness ==
    /\ pc = "version"
    /\ Len(Versions) = 2
    /\ ~Versions[2].success
    /\ Versions[2].attempts = 3
    /\ port_calls.generate[2] = 3
    /\ port_calls.analyze[2] = 0

\* the ordinals below k whose Version Result has success=true
SucceededBelow(k) == {j \in 1..(k - 1) : j <= Len(Versions) /\ Versions[j].success}

Highest(S) == CHOOSE j \in S : \A i \in S : i <= j

\* C5: the reference image of every generation call for version k is the
\* final image of the highest-ordinal successful version below k, and the
\* original input image when there is none.
C5_ReferenceIsLastSuccess ==
    gen_request # None =>
        LET k == gen_request.output_path[2]
        IN  gen_request.reference_image_path =
                IF SucceededBelow(k) = {}
                THEN INPUT_IMAGE
                ELSE final_path(Highest(SucceededBelow(k)))

\* version 2 failed, version 1 succeeded, and version 3 is generated from
\* version 1's final image
C5_Witness ==
    /\ gen_request # None
    /\ gen_request.output_path[2] = 3
    /\ Versions[1].success
    /\ ~Versions[2].success
    /\ gen_request.reference_image_path = final_path(1)

\* the total of the final scores, a failed version counting 0
RECURSIVE TotalScore(_)
TotalScore(vs) ==
    IF vs = <<>> THEN 0
    ELSE (IF vs[1].success THEN vs[1].final_score ELSE 0) + TotalScore(Tail(vs))

HasSummary == results # None /\ results.summary # None

\* C6: average_score (in tenths) is the mean over all NUM_VERSIONS versions of
\* the final scores, a failed version contributing 0: N times the average is
\* the total.
C6_AverageOverAllVersions ==
    HasSummary =>
        /\ results.summary.average_score * NUM_VERSIONS
               = 10 * TotalScore(results.versions)
        /\ \A k \in 1..Len(results.versions) :
               ~results.versions[k].success => results.versions[k].final_score = 0

\* a summary over a session with a failed version and a successful one
C6_Witness ==
    /\ HasSummary
    /\ \E k \in 1..NUM_VERSIONS : ~results.versions[k].success
    /\ \E k \in 1..NUM_VERSIONS : results.versions[k].final_score > 0
    /\ results.summary.average_score > 0

FirstTryPass8(rec) == rec.success /\ rec.passed /\ rec.score = 8

\* C7: a version whose first attempt generates and is evaluated pass=true with
\* score 8 ends with that single attempt (attempts=1, final_score=8, passed),
\* and a session made of such versions only has the summary
\* {versions_passed: N, versions_total: N, average_score: 8.0, total_attempts: N}.
C7_AllPassFirstTry ==
    /\ [][(pc = "finalize" /\ FirstTryPass8(attempts[1])) =>
             LET r == results'.versions[Len(results'.versions)]
             IN  /\ r.attempts = 1
                 /\ r.final_score = 8
                 /\ r.passed
                 /\ r.success
                 /\ port_calls'.generate[version] = 1]_vars
    /\ [](pc = "done" /\ (\A k \in 1..NUM_VERSIONS :
                             /\ results.versions[k].attempts = 1
                             /\ results.versions[k].final_score = 8
                             /\ results.versions[k].passed)
            => results.summary = [versions_passed |-> NUM_VERSIONS,
                                  versions_total |-> NUM_VERSIONS,
                                  average_score |-> 80,
                                  total_attempts |-> NUM_VERSIONS])

C7_Witness ==
    /\ pc = "done"
    /\ \A v \in 1..NUM_VERSIONS :
          /\ port_calls.generate[v] = 1
          /\ port_calls.analyze[v] = 1
          /\ results.versions[v].final_score = 8
          /\ results.versions[v].passed
    /\ results.summary = [versions_passed |-> 5, versions_total |-> 5,
                          average_score |-> 80, total_attempts |-> 5]

----------------------------------------------------------------------------
\* Properties of the evaluator (specification SpecEval)

Evaluated == pc = "evaluated" /\ analysis_result.success

\* C8: for a non-null analysis text, pass=true exactly when the upper-cased
\* text has an occurrence of "PASS" with no occurrence of "FAIL" (and none of
\* "PASS") starting before it; a "FAIL" after the first "PASS" does not matter.
C8_PassIffNoFailBeforeFirstPass ==
    Evaluated =>
        LET u == upper(analysis_result.analysis)
        IN  critique_result.passed <=>
                \E i \in 1..Len(u) :
                    /\ MatchAt(u, PASS, i)
                    /\ \A j \in 1..(i - 1) :
                          ~MatchAt(u, PASS, j) /\ ~MatchAt(u, FAIL, j)

\* a text with FAIL after its first PASS is evaluated pass=true
C8_Witness ==
    /\ Evaluated
    /\ critique_result.passed
    /\ LET u == upper(analysis_result.analysis)
       IN  \E i, j \in 1..Len(u) :
              i < j /\ MatchAt(u, PASS, i) /\ MatchAt(u, FAIL, j)

\* C9: a text whose upper-cased form does not contain "OVERALL SCORE" gets
\* overall_score 5, whatever numbers it holds and whatever its verdict.
C9_DefaultScoreWithoutLabel ==
    (Evaluated /\ ~Contains(upper(analysis_result.analysis), OVERALL_SCORE)) =>
        critique_result.overall_score = 5

\* "overall  score: 7" (two blanks, so no label) is scored 5
C9_Witness ==
    /\ Evaluated
    /\ analysis_result.analysis =
          <<"o", "v", "e", "r", "a", "l", "l", " ", " ", "s", "c", "o", "r", "e",
            ":", " ", "7">>
    /\ critique_result.overall_score = 5

\* the lines of a text
RECURSIVE Lines(_)
Lines(t) ==
    IF find(t, <<"\n">>, 1) = 0 THEN <<t>>
    ELSE <<SubSeq(t, 1, find(t, <<"\n">>, 1) - 1)>>
             \o Lines(SubSeq(t, find(t, <<"\n">>, 1) + 1, Len(t)))

NonBlankLines(t) == SelectSeq(Lines(t), LAMBDA l : strip(l) # <<>>)

\* a "CRITICAL ISSUES" header line, three bulleted lines, a "VERDICT" header
ThreeBulletedLines(t) ==
    LET ls == NonBlankLines(t)
    IN  /\ Len(ls) = 5
        /\ Contains(upper(ls[1]), CRITICAL_ISSUES)
        /\ \A k \in 2..4 : ls[k][1] \in BulletChars
        /\ MatchAt(upper(ls[5]), VERDICT, 1)

\* C10: for a text made of a "CRITICAL ISSUES" header line, three bulleted
\* lines and a "VERDICT" header, the issues are exactly the three lines without
\* their bullet marker, trimmed, in order.
C10_ThreeBulletedItems ==
    (Evaluated /\ ThreeBulletedLines(analysis_result.analysis)) =>
        LET ls == NonBlankLines(analysis_result.analysis)
        IN  critique_result.issues = [k \in 1..3 |-> strip(Tail(ls[k + 1]))]

----------------------------------------------------------------------------
\* Properties of the failure paths and of the selection of the best attempt

\* the analysis port produced no text: a failure, a null text or an empty text
NoTextProduced(ana) ==
    \/ ~ana.success
    \/ ana.analysis = NONE_TEXT
    \/ ana.analysis = <<>>

\* C11 (SpecEval): whenever the analysis port produced no text, critique_image
\* returns pass=false, score=0, issues=["Failed to analyze image"] and an error.
C11_NoTextGivesFailureVerdict ==
    (pc \in {"evaluated", "raised"} /\ NoTextProduced(analysis_result)) =>
        /\ pc = "evaluated"
        /\ critique_result.passed = FALSE
        /\ critique_result.overall_score = 0
        /\ critique_result.issues = <<FAILED_TO_ANALYZE>>
        /\ critique_result.error # None

SetupSucceeded == setup # None /\ setup.api_key /\ setup.input_exists

\* C12 (Spec): once setup has succeeded, run_full_pipeline only ever ends by
\* returning: all NUM_VERSIONS versions are recorded, the summary is written to
\* results.json, success is true and the exit status is 0.
C12_SessionAlwaysCompletes ==
    (SetupSucceeded /\ pc \in {"done", "raised"}) =>
        /\ pc = "done"
        /\ Len(results.versions) = NUM_VERSIONS
        /\ results.summary # None
        /\ RESULTS_JSON \in files
        /\ results.success
        /\ exit_status(results) = 0

\* C13 (Spec): when the credential is missing or the input file does not
\* exist, the run stops in main: no port is ever called, no session result and
\* no Version Result exists, no file is written.
C13_SetupFailureBeforeAnyVersion ==
    (setup # None /\ (~setup.api_key \/ ~setup.input_exists)) =>
        /\ pc \in {"exit_1", "value_error"}
        /\ results = None
        /\ Versions = <<>>
        /\ gen_request = None
        /\ analysis_result = None
        /\ \A v \in 1..NUM_VERSIONS :
              port_calls.generate[v] = 0 /\ port_calls.analyze[v] = 0
        /\ files = {}

C13_Witness ==
    /\ pc = "value_error"
    /\ ~setup.api_key
    /\ setup.input_exists
    /\ results = None

\* a generation call is made in this step
GenerationCall == port_calls'.generate # port_calls.generate

\* C14 as stated (Spec): the token passed on attempt i > 1 is the token the
\* previous attempt of the version returned; the first attempt passes the token
\* handed over from the previous version.
C14_TokenCarriedAttemptToAttempt ==
    [][GenerationCall =>
          gen_request'.previous_thought_signature =
              IF iteration > 0 THEN gen_result.thought_signature
                               ELSE thought_signature]_vars

\* C14 as amended (Spec): every attempt of version k, first or retry, passes the
\* token of the Version Result of the highest-ordinal successful version below
\* k, null when there is none; tokens returned by the attempts of version k
\* itself are not passed to its later attempts.
C14_TokenFixedPerVersion ==
    gen_request # None =>
        LET k == gen_request.output_path[2]
        IN  gen_request.previous_thought_signature =
                IF SucceededBelow(k) = {}
                THEN None
                ELSE Versions[Highest(SucceededBelow(k))].thought_signature

\* a retry is requested with a token other than the one attempt 1 returned
C14_Witness ==
    /\ pc = "critique"
    /\ iteration = 1
    /\ attempts[1].success
    /\ attempts[1].thought_signature # None
    /\ gen_request.output_path = attempt_path(version, 1)
    /\ gen_request.previous_thought_signature # attempts[1].thought_signature

\* the Version Result appended by this step
AppendedResult == results'.versions[Len(results'.versions)]

\* C15 (Spec): the Version Result has success=true and a final image exactly
\* when at least one attempt of the version produced an image.
C15_SuccessIffImageProduced ==
    [][pc = "finalize" =>
          ((AppendedResult.success /\ AppendedResult.image_path # None)
              <=> \E k \in 1..Len(attempts) : attempts[k].success)]_vars

\* attempt k is, among the attempts that produced an image, the earliest one
\* with the maximum score
EarliestMaximum(atts, k) ==
    /\ atts[k].success
    /\ \A j \in 1..Len(atts) :
          atts[j].success =>
              /\ atts[j].score <= atts[k].score
              /\ (j < k => atts[j].score < atts[k].score)

\* C16 (Spec): whenever a best attempt is selected, it is the earliest attempt
\* with the maximum score among those whose generation succeeded, and the
\* running best is only ever replaced by a strictly greater score.
C16_BestIsEarliestMaximum ==
    /\ [](InVersion /\ best_result # None =>
             /\ best_score = best_result.score
             /\ \E k \in 1..Len(attempts) :
                   attempts[k] = best_result /\ EarliestMaximum(attempts, k))
    /\ [][(InVersion /\ InVersion' /\ best_result # None
              /\ best_result' # best_result) => best_score' > best_score]_vars

\* two attempts tie and the earlier one is the best
C16_Witness ==
    /\ InVersion
    /\ Len(attempts) >= 2
    /\ attempts[1].success
    /\ attempts[2].success
    /\ attempts[1].score = attempts[2].score
    /\ best_result = attempts[1]

\* C17 (Spec): the Version Result of a successful version carries the score,
\* the pass flag and the token of the earliest maximum-score attempt, its image
\* is that attempt's image renamed to the final image, and attempts is the
\* number of attempts made, generation failures included.
C17_ResultIsBestAttempt ==
    [][(pc = "finalize" /\ AppendedResult.success) =>
          \E k \in 1..Len(attempts) :
              /\ EarliestMaximum(attempts, k)
              /\ AppendedResult.final_score = attempts[k].score
              /\ AppendedResult.passed = attempts[k].passed
              /\ AppendedResult.thought_signature = attempts[k].thought_signature
              /\ AppendedResult.image_path = final_path(version)
              /\ final_path(version) \in files'
              /\ attempts[k].image_path \in files
              /\ attempts[k].image_path \notin files'
              /\ AppendedResult.attempts = Len(attempts)
              /\ AppendedResult.attempts = port_calls.generate[version]]_vars

\* a successful version whose best attempt is the first of three and whose
\* second attempt failed at generation
C17_Witness ==
    /\ pc \in {"version", "summary"}
    /\ Versions # <<>>
    /\ Versions[Len(Versions)].success
    /\ Versions[Len(Versions)].attempts = 3
    /\ Len(attempts) = 3
    /\ best_result = attempts[1]
    /\ ~attempts[2].success
    /\ attempts[3].success

\* C18 (Spec): previous_image_path and thought_signature change only in the
\* step that ends a version; when its result has success=true both become the
\* result's image and token, and when it failed both are left as they were.
C18_ThreadedStateOnlyOnSuccess ==
    [][/\ (pc # "finalize" =>
              /\ previous_image_path' = previous_image_path
              /\ thought_signature' = thought_signature)
       /\ (pc = "finalize" =>
              IF AppendedResult.success
              THEN /\ previous_image_path' = AppendedResult.image_path
                   /\ thought_signature' = AppendedResult.thought_signature
              ELSE /\ previous_image_path' = previous_image_path
                   /\ thought_signature' = thought_signature)]_vars

\* version 2 failed after version 1 succeeded with a token: version 3 is
\* handed version 1's image and token
C18_Witness ==
    /\ pc = "version"
    /\ Len(Versions) = 2
    /\ Versions[1].success
    /\ Versions[1].thought_signature # None
    /\ ~Versions[2].success
    /\ previous_image_path = Versions[1].image_path
    /\ thought_signature = Versions[1].thought_signature

\* C19 (SpecEval): critique_image returns a Verdict for every analysis result
\* and never raises.
C19_EvaluatorNeverRaises ==
    pc \in {"evaluated", "raised"} => (pc = "evaluated" /\ critique_result # None)

\* C20 (Spec): every score of a Verdict, of an Attempt Record and of a Version
\* Result lies in 0..10.
C20_ScoresWithinScale ==
    /\ critique_result # None => critique_result.overall_score \in 0..10
    /\ \A k \in 1..Len(attempts) : attempts[k].score \in 0..10
    /\ best_score \in 0..10
    /\ \A k \in 1..Len(Versions) : Versions[k].final_score \in 0..10

----------------------------------------------------------------------------
\* Properties of the score extraction, the attempt loop and the summary

\* the literal label stands at position i, in any letter case
LabelAt(t, i) == MatchAt(upper(t), OVERALL_SCORE, i)

\* the label at i is followed, after colons and blanks only, by digits
IntegerAfterLabel(t, i) == LabelAt(t, i) /\ ScoreMatchAt(t, i)

FirstLabelWithInteger(t) ==
    CHOOSE i \in 1..Len(t) :
        /\ IntegerAfterLabel(t, i)
        /\ \A j \in 1..(i - 1) : ~IntegerAfterLabel(t, j)

\* C21 as stated (SpecEval): when an "overall score" label is followed by an
\* integer the score is that integer, and when the label is present with no
\* integer after it the score is the default 5.
C21_ScoreIsIntegerAfterLabel ==
    Evaluated =>
        LET t == analysis_result.analysis
        IN  /\ (\E i \in 1..Len(t) : IntegerAfterLabel(t, i)) =>
                   critique_result.overall_score
                       = int(ScoreGroup(t, FirstLabelWithInteger(t)))
            /\ ((\E i \in 1..Len(t) : LabelAt(t, i))
                    /\ ~\E i \in 1..Len(t) : IntegerAfterLabel(t, i)) =>
                   critique_result.overall_score = DEFAULT_SCORE

\* in the text t, whose upper-cased form is u: "overall", blanks, "score",
\* colons and blanks and then a digit follow one another from position i
PatternAt(t, u, i) ==
    /\ MatchAt(u, OVERALL, i)
    /\ LET j1 == SkipClass(t, i + Len(OVERALL), Whitespace)
           j3 == SkipClass(t, j1 + Len(SCORE), Whitespace \cup {":"})
       IN  /\ MatchAt(u, SCORE, j1)
           /\ j3 <= Len(t)
           /\ IsDigit(t[j3])

\* C21 amended (SpecEval): when the text holds the label "overall score" (one
\* blank, any letter case) anywhere, the score is the integer of the leftmost
\* place where "overall", optional blanks, "score", optional colons and blanks
\* and digits follow one another, which need not be at the label; when the
\* label is present and there is no such place the score is 5; the evaluation
\* does not raise.
C21_ScoreIsLeftmostPattern ==
    (pc \in {"evaluated", "raised"} /\ analysis_result.success
        /\ analysis_result.analysis # NONE_TEXT) =>
        LET t == analysis_result.analysis
            u == upper(t)
            places == {i \in 1..Len(t) : PatternAt(t, u, i)}
        IN  (\E i \in 1..Len(t) : MatchAt(u, OVERALL_SCORE, i)) =>
                /\ pc = "evaluated"
                /\ critique_result.error = None
                /\ critique_result.overall_score =
                       IF places # {}
                       THEN int(ScoreGroup(t, CHOOSE i \in places :
                                                 \A j \in places : i <= j))
                       ELSE DEFAULT_SCORE

\* the label has no integer after it and the score is the integer found after
\* an "overall  score" written elsewhere with two blanks
C21_Witness ==
    /\ Evaluated
    /\ \E i \in 1..Len(analysis_result.analysis) :
          LabelAt(analysis_result.analysis, i)
    /\ ~\E i \in 1..Len(analysis_result.analysis) :
          IntegerAfterLabel(analysis_result.analysis, i)
    /\ critique_result.overall_score = 7

\* the attempts of the version at hand that produced an image
Generated == {k \in 1..Len(attempts) : attempts[k].success}

\* C22 (Spec): a failed generation call appends an Attempt Record with
\* success=false, score=0 and issues=["Generation failed"], makes no analysis
\* call, leaves the running best as it was and moves on to the next attempt,
\* or to the end of the version after the third; a successful one is followed
\* by exactly one analysis call, so that the analysis calls of a version are as
\* many as its successful generations.
C22_FailedGenerationSkipsAnalysis ==
    /\ [][(pc = "attempt" /\ ~gen_result'.success) =>
             /\ Len(attempts') = Len(attempts) + 1
             /\ SubSeq(attempts', 1, Len(attempts)) = attempts
             /\ LET rec == attempts'[Len(attempts')]
                IN  /\ rec.success = FALSE
                    /\ rec.score = 0
                    /\ rec.issues = <<GENERATION_FAILED>>
                    /\ rec.error = gen_result'.error
             /\ port_calls'.analyze = port_calls.analyze
             /\ best_result' = best_result
             /\ best_score' = best_score
             /\ pc' = IF Len(attempts') < 3 THEN "attempt" ELSE "finalize"]_vars
    /\ [][(pc = "attempt" /\ gen_result'.success) =>
             /\ pc' = "critique"
             /\ port_calls'.analyze = port_calls.analyze]_vars
    /\ [][pc = "critique" =>
             port_calls'.analyze[version] = port_calls.analyze[version] + 1]_vars
    /\ [](InVersion =>
             port_calls.analyze[version]
                 = Cardinality(Generated))
    /\ [](pc = "raised" =>
             port_calls.analyze[version] = Cardinality(Generated) + 1)

\* a generation failed after an attempt that had become the best: one analysis
\* call for two generation calls, and a further attempt is pending
C22_Witness ==
    /\ pc = "attempt"
    /\ Len(attempts) = 2
    /\ attempts[1].success
    /\ ~attempts[2].success
    /\ attempts[2].score = 0
    /\ best_result = attempts[1]
    /\ port_calls.generate[version] = 2
    /\ port_calls.analyze[version] = 1

\* the base prompt of version v, and the base prompt with issues appended
BasePrompt(v) == [version |-> v, retry |-> FALSE, issues |-> <<>>]

RetryPrompt(v, issues) == [version |-> v, retry |-> TRUE, issues |-> issues]

\* C23 (Spec): the first attempt of a version is generated from the version's
\* base prompt; attempt i > 1 from the base prompt with exactly the issues of
\* attempt i-1 appended when that attempt recorded issues (those of a failed
\* generation included), and from the plain base prompt when it recorded none,
\* whatever the attempts before i-1 recorded.
C23_RetryPromptFromPreviousAttempt ==
    [][pc = "attempt" =>
          LET i == port_calls'.generate[version]
          IN  /\ gen_request'.output_path = attempt_path(version, i - 1)
              /\ Len(attempts) = i - 1
              /\ gen_request'.prompt =
                     IF i = 1 THEN BasePrompt(version)
                     ELSE IF attempts[i - 1].issues # <<>>
                          THEN RetryPrompt(version, attempts[i - 1].issues)
                          ELSE BasePrompt(version)]_vars

\* the third attempt is generated from the plain base prompt, the second
\* attempt having recorded no issue and the first one some
C23_Witness ==
    /\ gen_request # None
    /\ gen_request.output_path = attempt_path(version, 2)
    /\ pc \in {"attempt", "critique", "finalize"}
    /\ Len(attempts) >= 2
    /\ attempts[1].issues # <<>>
    /\ attempts[2].issues = <<>>
    /\ gen_request.prompt = BasePrompt(version)

\* the third attempt is generated with the issues of the second attempt, a
\* failed generation, the first having recorded other issues
C23_WitnessRetry ==
    /\ gen_request # None
    /\ gen_request.output_path = attempt_path(version, 2)
    /\ Len(attempts) >= 2
    /\ attempts[1].success
    /\ attempts[1].issues # <<>>
    /\ ~attempts[2].success
    /\ gen_request.prompt = RetryPrompt(version, <<GENERATION_FAILED>>)

\* the images the attempts of version v write
AttemptImages(v) == {attempt_path(v, it) : it \in 0..(MAX_ITERATIONS_PER_VERSION - 1)}

\* C24 (Spec): every generation call of a version passes the reference image
\* the first call of the version passed, which is never an image written by
\* an attempt of that version; the image handed over by the session does not
\* change while the version runs.
C24_ReferenceFixedPerVersion ==
    /\ [][pc = "attempt" =>
             /\ gen_request'.reference_image_path \notin AttemptImages(version)
             /\ (iteration > 0 =>
                    /\ gen_request.output_path[2] = version
                    /\ gen_request'.reference_image_path
                           = gen_request.reference_image_path)]_vars
    /\ [][(InVersion /\ InVersion') =>
             previous_image_path' = previous_image_path]_vars

\* the third generation call of version 2, after two attempts that produced
\* images, still passes version 1's final image
C24_Witness ==
    /\ gen_request # None
    /\ gen_request.output_path = attempt_path(2, 2)
    /\ Len(attempts) >= 2
    /\ attempts[1].success
    /\ attempts[2].success
    /\ attempts[2].image_path \in files
    /\ gen_request.reference_image_path = final_path(1)

\* the step ends an attempt of the version at hand: its generation failed, or
\* its evaluation returned or raised
EndsAttempt == pc = "critique" \/ (pc = "attempt" /\ ~gen_result'.success)

\* the attempt the step ends was evaluated pass=true with a score of at least 7
EndsAccepted ==
    /\ pc = "critique"
    /\ Len(attempts') = Len(attempts) + 1
    /\ Accepted(attempts'[Len(attempts')])

\* C25 (Spec): a step that ends an attempt which is not pass with score >= 7,
\* fewer than 3 attempts having been made for the version, leads to a further
\* attempt; the loop is left before the third attempt only by a step that ends
\* an attempt evaluated pass with score >= 7.
C25_LoopEndsOnlyByAcceptOrBound ==
    [][EndsAttempt =>
          /\ (~EndsAccepted /\ port_calls'.generate[version] < 3) =>
                 pc' = "attempt"
          /\ (pc' # "attempt" /\ port_calls'.generate[version] < 3) =>
                 (EndsAccepted /\ pc' = "finalize")]_vars

\* the same, for the steps in which the evaluation does not raise
NoRaise_LoopEndsOnlyByAcceptOrBound ==
    [][(EndsAttempt /\ pc' # "raised") =>
          /\ (~EndsAccepted /\ port_calls'.generate[version] < 3) =>
                 pc' = "attempt"
          /\ (pc' # "attempt" /\ port_calls'.generate[version] < 3) =>
                 (EndsAccepted /\ pc' = "finalize")]_vars

\* the attempts fields of the first n Version Results, added up
RECURSIVE AttemptsUpTo(_)
AttemptsUpTo(n) ==
    IF n = 0 THEN 0 ELSE results.versions[n].attempts + AttemptsUpTo(n - 1)

\* C26 (Spec): in the summary versions_passed is the number of Version
\* Results with passed=true, versions_total is N and total_attempts is the sum
\* of the attempts fields of all N Version Results, the failed ones included.
C26_SummaryCounts ==
    HasSummary =>
        /\ Len(results.versions) = NUM_VERSIONS
        /\ results.summary.versions_passed =
               Cardinality({k \in 1..NUM_VERSIONS : results.versions[k].passed})
        /\ results.summary.versions_total = NUM_VERSIONS
        /\ results.summary.total_attempts = AttemptsUpTo(NUM_VERSIONS)

\* a summary over a failed version of 3 attempts and four versions that
\* passed at the first attempt
C26_Witness ==
    /\ HasSummary
    /\ \E k \in 1..NUM_VERSIONS :
          ~results.versions[k].success /\ results.versions[k].attempts = 3
    /\ results.summary.versions_passed = NUM_VERSIONS - 1
    /\ results.summary.versions_total = NUM_VERSIONS
    /\ results.summary.total_attempts = NUM_VERSIONS + 2

TIMED_OUT == <<"Request timed out">>

\* the step is a generation call that timed out
GenerationTimesOut == pc = "attempt" /\ gen_result'.error = TIMED_OUT

\* the step is an evaluation whose analysis call timed out
AnalysisTimesOut == pc = "critique" /\ analysis_result'.error = TIMED_OUT

\* the step appends one Attempt Record, scored 0 and not passed, leaves the
\* running best as it was and goes on to the next attempt, or to the end of
\* the version after the third
FailurePath ==
    /\ Len(attempts') = Len(attempts) + 1
    /\ SubSeq(attempts', 1, Len(attempts)) = attempts
    /\ attempts'[Len(attempts')].score = 0
    /\ ~Accepted(attempts'[Len(attempts')])
    /\ best_result' = best_result
    /\ best_score' = best_score
    /\ best_result' # attempts'[Len(attempts')]
    /\ pc' = IF Len(attempts') < 3 THEN "attempt" ELSE "finalize"

\* C27 as stated (Spec): a generation call or an analysis call that times out
\* is recorded as an attempt with success=false, score 0, not passed and never
\* the best, and the version goes on to the next attempt or to its end.
C27_TimeoutRecordedAsNotSuccessful ==
    [][(GenerationTimesOut \/ AnalysisTimesOut) =>
          /\ FailurePath
          /\ attempts'[Len(attempts')].success = FALSE]_vars

\* C27 amended (Spec): a timeout of either call ends in an Attempt Record
\* scored 0 that never becomes the best, and the version goes on to the next
\* attempt or to its end; the record has success=false and issues
\* ["Generation failed"] after a generation timeout, and success=true, the
\* image, passed=false and issues ["Failed to analyze image"] after an analysis
\* timeout.
C27_TimeoutTakesFailurePath ==
    /\ [][GenerationTimesOut =>
             /\ FailurePath
             /\ attempts'[Len(attempts')].success = FALSE
             /\ attempts'[Len(attempts')].issues = <<GENERATION_FAILED>>
             /\ port_calls'.analyze = port_calls.analyze]_vars
    /\ [][AnalysisTimesOut =>
             /\ FailurePath
             /\ attempts'[Len(attempts')].success = TRUE
             /\ attempts'[Len(attempts')].image_path = gen_result.image_path
             /\ attempts'[Len(attempts')].passed = FALSE
             /\ attempts'[Len(attempts')].issues = <<FAILED_TO_ANALYZE>>]_vars

\* an analysis call timed out: its attempt is recorded with success=true and
\* score 0, is not the best, and the next attempt is pending
C27_Witness ==
    /\ pc = "attempt"
    /\ attempts # <<>>
    /\ analysis_result # None
    /\ analysis_result.error = TIMED_OUT
    /\ attempts[Len(attempts)].success
    /\ attempts[Len(attempts)].score = 0
    /\ attempts[Len(attempts)].issues = <<FAILED_TO_ANALYZE>>
    /\ best_result # attempts[Len(attempts)]

\* the generation requests of versions 1..n, added up
RECURSIVE GenerationRequestsUpTo(_)
GenerationRequestsUpTo(n) ==
    IF n = 0 THEN 0 ELSE port_calls.generate[n] + GenerationRequestsUpTo(n - 1)

\* C28 (Spec): an attempt sends exactly one generation request and, when it
\* is evaluated, one analysis request, and no other step sends any; so the
\* generation requests of a version are as many as its attempts and at most 3,
\* its analysis requests no more, and total_attempts is the number of
\* generation requests of the session.
C28_OneRequestPerAttempt ==
    /\ [][/\ pc = "attempt" =>
                /\ port_calls'.generate =
                       [port_calls.generate EXCEPT ![version] = @ + 1]
                /\ port_calls'.analyze = port_calls.analyze
          /\ pc = "critique" =>
                /\ port_calls'.analyze =
                       [port_calls.analyze EXCEPT ![version] = @ + 1]
                /\ port_calls'.generate = port_calls.generate
          /\ pc \notin {"attempt", "critique"} => port_calls' = port_calls]_vars
    /\ [](\A v \in 1..NUM_VERSIONS :
             /\ port_calls.generate[v] <= MAX_ITERATIONS_PER_VERSION
             /\ port_calls.analyze[v] <= port_calls.generate[v])
    /\ [](InVersion =>
             port_calls.generate[version]
                 = Len(attempts) + (IF pc = "critique" THEN 1 ELSE 0))
    /\ [](HasSummary =>
             results.summary.total_attempts
                 = GenerationRequestsUpTo(NUM_VERSIONS))

\* a session with failed generation calls: 8 generation requests for 5
\* versions, and total_attempts = 8
C28_Witness ==
    /\ HasSummary
    /\ GenerationRequestsUpTo(NUM_VERSIONS) = NUM_VERSIONS + MaxDeviations
    /\ results.summary.total_attempts = NUM_VERSIONS + MaxDeviations
    /\ \E v \in 1..NUM_VERSIONS :
          port_calls.generate[v] > port_calls.analyze[v]

\* the requests of a port for versions 1..n, added up
RECURSIVE RequestsUpTo(_, _)
RequestsUpTo(calls, n) ==
    IF n = 0 THEN 0 ELSE calls[n] + RequestsUpTo(calls, n - 1)

AllRequests(pcalls) ==
    RequestsUpTo(pcalls.generate, NUM_VERSIONS)
        + RequestsUpTo(pcalls.analyze, NUM_VERSIONS)

\* what the Version Results appended so far hand to version k: the field of
\* the result of the highest successful version below k, None without one
HandedOver(k, field) ==
    IF SucceededBelow(k) = {} THEN None
    ELSE IF field = "image_path"
         THEN Versions[Highest(SucceededBelow(k))].image_path
         ELSE Versions[Highest(SucceededBelow(k))].thought_signature

\* C29 (Spec): a step makes at most one port call, and the call has returned
\* when the step ends. An analysis call is made only when the generation call
\* of its attempt has returned an image; a generation call only when every
\* earlier attempt of the version is recorded; and a call for version k only
\* when the Version Results of versions 1..k-1 are appended and the image and
\* the token handed to version k are those they determine, no call for a later
\* version having been made.
C29_OneCallAtATime ==
    /\ [][AllRequests(port_calls') <= AllRequests(port_calls) + 1]_vars
    /\ [][pc = "critique" =>
             /\ gen_result.success
             /\ gen_result.image_path = attempt_path(version, iteration)
             /\ gen_result.image_path \in files
             /\ port_calls.generate[version] = Len(attempts) + 1
             /\ port_calls.analyze[version] < port_calls.generate[version]]_vars
    /\ [][pc = "attempt" =>
             /\ Len(attempts) = iteration
             /\ port_calls.generate[version] = Len(attempts)]_vars
    /\ [][(pc = "attempt" \/ pc = "critique") =>
             /\ Len(Versions) = version - 1
             /\ \A k \in 1..Len(Versions) : Versions[k].version = k
             /\ previous_image_path = HandedOver(version, "image_path")
             /\ thought_signature = HandedOver(version, "thought_signature")
             /\ \A v \in (version + 1)..NUM_VERSIONS :
                    (port_calls.generate[v] = 0 /\ port_calls.analyze[v] = 0)]_vars

\* the first generation call of version 3 has been made: versions 1 and 2
\* have their results, version 3 was handed version 2's image and token, and
\* nothing was sent for versions 4 and 5
C29_Witness ==
    /\ pc = "critique"
    /\ version = 3
    /\ Len(Versions) = 2
    /\ Versions[1].attempts = 2
    /\ Versions[2].success
    /\ previous_image_path = final_path(2)
    /\ thought_signature = Versions[2].thought_signature
    /\ port_calls.generate[3] = 1
    /\ port_calls.analyze[3] = 0
    /\ port_calls.generate[4] = 0

----------------------------------------------------------------------------
\* Properties of a session started in an existing directory (SpecCollision)

\* C30 (SpecCollision): a session whose directory already holds the files of
\* an earlier session of the same name and second replaces none of them:
\* neither the copy of the original, nor an attempt or final image, nor
\* results.json.
C30_NoExistingFileWrittenOver == written_over = {}

----------------------------------------------------------------------------
\* Properties that follow from the loop and the selection together

\* the greatest of the scores of the Attempt Records, 0 when there is none
MaxScore(atts) ==
    IF atts = <<>> THEN 0
    ELSE CHOOSE m \in {atts[k].score : k \in 1..Len(atts)} :
             \A k \in 1..Len(atts) : atts[k].score <= m

\* C31 (Spec): the final_score of every Version Result is the maximum of the
\* scores of the version's Attempt Records (0 for a failed generation), and
\* within a version the running best score is that maximum at every moment
\* and never decreases.
C31_FinalScoreIsMaximum ==
    /\ [][pc = "finalize" =>
             /\ attempts # <<>>
             /\ AppendedResult.final_score = MaxScore(attempts)]_vars
    /\ [](InVersion => best_score = MaxScore(attempts))
    /\ [][(InVersion /\ InVersion') => best_score' >= best_score]_vars

\* a version scored 9, 6 and 8 by its three attempts has final_score 9
C31_Witness ==
    /\ pc \in {"version", "summary"}
    /\ Len(attempts) = 3
    /\ attempts[1].score = 9
    /\ attempts[2].score = 6
    /\ attempts[3].score = 8
    /\ Versions # <<>>
    /\ Versions[Len(Versions)].final_score = 9

\* the ordinals of the Version Results with success=true
Successful == {k \in 1..Len(Versions) : Versions[k].success}

StoppedByPass == attempts # <<>> /\ Accepted(attempts[Len(attempts)])

\* C33 (Spec): when the loop of a version was left because an attempt passed
\* with score >= 7, the Version Result has passed=true and its final image
\* and its token are those of that attempt, whatever the earlier attempts of
\* the version scored.
C33_EarlyStopResultIsPassingAttempt ==
    [][(pc = "finalize" /\ StoppedByPass) =>
          LET last == attempts[Len(attempts)]
          IN  /\ AppendedResult.success
              /\ AppendedResult.passed
              /\ AppendedResult.thought_signature = last.thought_signature
              /\ AppendedResult.image_path = final_path(version)
              /\ final_path(version) \in files'
              /\ last.image_path \notin files']_vars

\* the same, for the versions none of whose earlier attempts scored as much
\* as the passing one
NoHigherBefore_EarlyStopResultIsPassingAttempt ==
    [][(pc = "finalize" /\ StoppedByPass
           /\ \A k \in 1..(Len(attempts) - 1) :
                 attempts[k].score < attempts[Len(attempts)].score) =>
          LET last == attempts[Len(attempts)]
          IN  /\ AppendedResult.success
              /\ AppendedResult.passed
              /\ AppendedResult.thought_signature = last.thought_signature
              /\ AppendedResult.image_path = final_path(version)
              /\ final_path(version) \in files'
              /\ last.image_path \notin files']_vars

\* C34 (Spec): every Version Result with passed=true has a final_score of at
\* least MIN_SCORE_TO_PASS, so that versions_passed counts only versions whose
\* image met the threshold.
C34_PassedMeetsThreshold ==
    /\ \A k \in 1..Len(Versions) :
          Versions[k].passed => Versions[k].final_score >= MIN_SCORE_TO_PASS
    /\ HasSummary =>
          results.summary.versions_passed
              <= Cardinality({k \in 1..Len(Versions) :
                                 Versions[k].final_score >= MIN_SCORE_TO_PASS})

\* C35 (Spec): every Version Result has between 1 and 3 attempts; it has
\* fewer than 3 only when the last attempt of the version passed with score
\* >= 7, and then it has success=true; the summary's total_attempts lies
\* between N and 3N.
C35_AttemptCountBounds ==
    /\ [](\A k \in 1..Len(Versions) :
             Versions[k].attempts \in 1..MAX_ITERATIONS_PER_VERSION)
    /\ [][(pc = "finalize"
              /\ AppendedResult.attempts < MAX_ITERATIONS_PER_VERSION) =>
             /\ StoppedByPass
             /\ AppendedResult.attempts = Len(attempts)
             /\ AppendedResult.success]_vars
    /\ [](HasSummary =>
             /\ results.summary.total_attempts >= NUM_VERSIONS
             /\ results.summary.total_attempts
                    <= MAX_ITERATIONS_PER_VERSION * NUM_VERSIONS)

\* a summary over a version accepted at its second attempt, a version that
\* used its three attempts, and three accepted at the first
C35_Witness ==
    /\ HasSummary
    /\ \E k \in 1..NUM_VERSIONS :
          Versions[k].attempts = 2 /\ Versions[k].success
    /\ \E k \in 1..NUM_VERSIONS : Versions[k].attempts = 3
    /\ results.summary.total_attempts = NUM_VERSIONS + 3

====
